---------------------------- MODULE Spec2Model ----------------------------
(***************************************************************************)
(* A state-machine model of the "ChatGPT Brain" backend (src/app.py):      *)
(* the proposal ledger and staging area (propose-upgrade,                  *)
(* approve-upgrade), the encrypted memory store (read_memory,              *)
(* write_memory) and the chat endpoint; and of the "AI HQ" orchestrator    *)
(* (src/main.py): the run-workflow endpoint and its provider calls.        *)
(*                                                                         *)
(* Text is modelled as a sequence of units.  A unit is one character, or   *)
(* one literal of the program taken as a whole (the disclaimer line, the   *)
(* fixed parts of a prompt or of a path).                                  *)
(*                                                                         *)
(* The server is a single asyncio event loop: a handler runs without       *)
(* interruption between two suspension points, and the only suspension     *)
(* points are the HTTP calls inside call_hf_text and the hand-over to the  *)
(* background task that runs after the response.  Each action below is one *)
(* such uninterrupted piece of a handler.                                  *)
(***************************************************************************)
EXTENDS Integers, Sequences, FiniteSets, TLC

VARIABLES
    HF_TOKEN,           \* app.py:21, TRUE iff a Hugging Face token is configured
    ALLOW_AUTO_DEPLOY,  \* app.py:24
    apiKeys,            \* main.py:13, the provider keys the orchestrator has
    proposalsFile,      \* the file proposals.json
    stagingDirExists,   \* whether the directory staging_skills exists
    stagingFiles,       \* the files of staging_skills: file name -> content
    memoryFile,         \* the file MEMORY_FILE
    task,               \* the requests in flight: slot -> position and locals
    last,               \* the response of the handler that answered last
    nreq,               \* number of requests received so far
    approvedLog,        \* history: ids for which approve(id, true) found a record
    lifecycle,          \* history: id -> "Proposed", "Staged" or "Rejected"
    proposed,           \* history: (user_id, prompt, code) triples stored by propose
    turns,              \* history: the chat turns answered, in order
    fresh,              \* history: the last call of write_memory
    gatewayLog,         \* history: the provider calls of the request answered last
    fileVersion,        \* history: how often a chat's write replaced the memory file
    arrival,            \* history: slot -> the ledger when its propose request came
    overtaken           \* history: ids whose record was written during the await of the propose that saved it

vars == <<HF_TOKEN, ALLOW_AUTO_DEPLOY, apiKeys, proposalsFile, stagingDirExists, stagingFiles,
          memoryFile, task, last, nreq, approvedLog, lifecycle, proposed,
          turns, fresh, gatewayLog, fileVersion, arrival, overtaken>>

\* history the handlers are not concerned with
raceVars == <<arrival, overtaken>>

ledgerVars == <<proposalsFile, stagingDirExists, stagingFiles, approvedLog,
                lifecycle, proposed>>

memoryVars == <<memoryFile, turns, fresh, gatewayLog, fileVersion>>

-----------------------------------------------------------------------------
(* Bounds of the model *)

\* requests received in one run
MaxRequests == 4

\* requests in flight at the same time
MaxTasks == 2

\* workflow requests received in one run
MaxWorkflows == 1

\* chat requests received in one run
MaxChats == 2

\* length of the long text the provider may return
LongLen == 1200

Tasks == 1..MaxTasks

-----------------------------------------------------------------------------
(* Text *)

\* U+D800, a lone surrogate: a str may hold it (json.loads yields it from
\* the escape \ud800), UTF-8 cannot encode it
Surrogate == "U+D800"

\* a character outside ASCII
NonAscii == "U+00E9"

Quote == "QUOTE"

Backslash == "BACKSLASH"

Whitespace == {" ", "\n"}

\* the value None of an Optional[str]
None == <<"None">>

EmptyMap == [x \in {} |-> x]

\* str.encode() (UTF-8, strict) succeeds on s
utf8_encodable(s) == \A i \in 1..Len(s) : s[i] # Surrogate

-----------------------------------------------------------------------------
(* The provider gateway, call_hf_text *)

\* What the inference API can answer to one POST: a non-success status, or a
\* JSON body of one of the shapes the function tells apart.
Replies(texts) ==
    {[kind |-> "http_error"], [kind |-> "error_object"], [kind |-> "empty_list"]}
    \cup {[kind |-> "generations", generated_text |-> t] : t \in texts}
    \cup {[kind |-> "other_json", str |-> t] : t \in texts}

\* The models call_hf_text posted to: the one it was called with, which every
\* caller sets to os.getenv('HF_MODEL', 'gpt2').  There is one POST a call.
Posted == <<"HF_MODEL">>

\* The outcome of call_hf_text once the POST has been answered by reply:
\* raise_for_status raises on a non-success status, and nothing is retried.
call_hf_text(reply) ==
    CASE reply.kind = "http_error" ->
            [ok |-> FALSE, error |-> "HTTPStatusError", posts |-> Posted]
      [] reply.kind = "error_object" ->
            [ok |-> FALSE, error |-> "Model error", posts |-> Posted]
      [] reply.kind = "empty_list" ->
            [ok |-> FALSE, error |-> "IndexError", posts |-> Posted]
      [] reply.kind = "generations" ->
            [ok |-> TRUE, text |-> reply.generated_text, posts |-> Posted]
      [] reply.kind = "other_json" ->
            [ok |-> TRUE, text |-> reply.str, posts |-> Posted]

-----------------------------------------------------------------------------
(* The proposal ledger, proposals.json *)

\* a function with one more (or one replaced) entry: d[k] = v in Python
Put(f, k, v) == [x \in DOMAIN f \cup {k} |-> IF x = k THEN v ELSE f[x]]

AbsentFile == [kind |-> "absent", data |-> EmptyMap]

CorruptFile == [kind |-> "corrupt", data |-> EmptyMap]

\* load_proposals: the ledger of the file, the empty ledger when the file is
\* missing or does not parse
load_proposals(file) == IF file.kind = "json" THEN file.data ELSE EmptyMap

\* save_proposals: the file after the ledger p has been written to it
save_proposals(p) == [kind |-> "json", data |-> p]

\* hashlib.sha1(s.encode()).hexdigest()[:10].  The digest is modelled as a
\* tagged copy of the hashed text: equal texts give equal digests, and the
\* texts of this model, being few, are taken to give different digests.
sha1_hex10(s) == [sha1 |-> s]

\* pid of propose_upgrade: the three texts are joined with nothing between
proposal_id(user_id, prompt, code) == sha1_hex10(user_id \o prompt \o code)

\* no staged_file key in a record
NoFile == <<>>

\* the record propose_upgrade stores
new_proposal(user_id, prompt, code) ==
    [user_id |-> user_id, prompt |-> prompt, code |-> code,
     approved |-> FALSE, staged_file |-> NoFile]

\* fname of approve_upgrade
staged_path(id) == <<"staging_skills/skill_", id, ".py">>

Disclaimer == <<"# Auto-generated skill - review before enabling">>

\* a staged file that lacks the disclaimer
staged_content_bare(p) == p.code

\* what approve_upgrade writes to the staged file: two writes, nothing between
staged_content(p) == Disclaimer \o p.code

\* the record after a rejection
reject_record(p) == [p EXCEPT !.approved = FALSE]

\* the record after an approval staged to fname
approve_record(p, fname) == [p EXCEPT !.approved = TRUE, !.staged_file = fname]

\* the staging directory after approve_upgrade wrote p's code to fname
write_staged(files, fname, p) == Put(files, fname, staged_content(p))

\* a rejection that writes the staged file all the same
reject_staging_writes(files, fname, p) == Put(files, fname, Disclaimer \o p.code)

\* the staging directory after a rejection: the handler writes no file
reject_staging(files, fname, p) == files

\* an auto-deploy branch that installs the staged code
auto_deploy_installing(flag, files, id, p) ==
    IF flag THEN Put(files, <<"skills/skill_", id, ".py">>, p.code) ELSE files

\* the files after the auto-deploy branch of approve_upgrade: with the flag
\* on the branch is `pass`
auto_deploy(flag, files, id, p) == files

\* proposals.get(id) found a record
found(proposals, id) == id \in DOMAIN proposals

\* a lookup that saves the ledger it loaded before it raises
not_found_file_saved(file) == [kind |-> "json", data |-> load_proposals(file)]

\* the ledger file after a request for an id the ledger lacks: the handler
\* raises before any save
not_found_file(file) == file

-----------------------------------------------------------------------------
(* The memory store: read_memory and write_memory *)

\* A memory document is the dict json.loads returns: which of the two keys it
\* has, and their values (an absent key has the empty value here).
EmptyDoc == [keys |-> {}, conversations |-> <<>>, summary |-> <<>>]

\* memory.get('conversations', [])
get_conversations(memory) ==
    IF "conversations" \in memory.keys THEN memory.conversations ELSE <<>>

\* memory.get('summary') or '', and memory.get('summary', '')
get_summary(memory) == IF "summary" \in memory.keys THEN memory.summary ELSE <<>>

\* The JSON text of a str is kept as the sequence of its lexemes: one per
\* character, the character itself or its escape.  ensure_ascii=False leaves
\* every character outside ASCII, a lone surrogate too, as it is.
json_escape(ch) ==
    CASE ch = Quote     -> <<Backslash, Quote>>
      [] ch = Backslash -> <<Backslash, Backslash>>
      [] ch = "\n"      -> <<Backslash, "n">>
      [] OTHER          -> <<ch>>

\* a lexeme the JSON parser accepts inside a string
json_valid_lexeme(lex) ==
    IF Len(lex) = 2
    THEN lex[1] = Backslash /\ lex[2] \in {Quote, Backslash, "n"}
    ELSE Len(lex) = 1 /\ lex[1] \notin {Quote, Backslash, "\n"}

\* the character a lexeme stands for
json_unescape(lex) ==
    IF Len(lex) = 2 THEN (IF lex[2] = "n" THEN "\n" ELSE lex[2]) ELSE lex[1]

json_dumps_str(s) == [i \in 1..Len(s) |-> json_escape(s[i])]

json_loads_str(text) == [i \in 1..Len(text) |-> json_unescape(text[i])]

\* UTF-8: the bytes of one character
utf8_bytes(ch) == IF ch = NonAscii THEN <<"0xC3", "0xA9">> ELSE <<ch>>

\* the character of one UTF-8 sequence
utf8_char(bytes) == IF Len(bytes) = 2 THEN NonAscii ELSE bytes[1]

\* a byte sequence that is the UTF-8 form of one character
utf8_valid(bytes) ==
    IF Len(bytes) = 2 THEN bytes = <<"0xC3", "0xA9">>
    ELSE Len(bytes) = 1 /\ bytes[1] \notin {"0xC3", "0xA9"}

\* bytes.decode() accepts the bytes
utf8_valid_str(raw) ==
    \A i \in 1..Len(raw) : \A j \in 1..Len(raw[i]) : utf8_valid(raw[i][j])

utf8_encode_str(text) ==
    [i \in 1..Len(text) |-> [j \in 1..Len(text[i]) |-> utf8_bytes(text[i][j])]]

utf8_decode_str(raw) ==
    [i \in 1..Len(raw) |-> [j \in 1..Len(raw[i]) |-> utf8_char(raw[i][j])]]

\* a document with f applied to each of its texts
MapTexts(f(_), d) ==
    [keys |-> d.keys,
     conversations |->
        [i \in 1..Len(d.conversations) |->
            [prompt |-> f(d.conversations[i].prompt),
             response |-> f(d.conversations[i].response)]],
     summary |-> f(d.summary)]

\* a predicate holds of each text of a document
AllTexts(P(_), d) ==
    /\ P(d.summary)
    /\ \A i \in 1..Len(d.conversations) :
          P(d.conversations[i].prompt) /\ P(d.conversations[i].response)

\* json.dumps(data, ensure_ascii=False)
json_dumps(data) == MapTexts(json_dumps_str, data)

\* str.encode() of the JSON text succeeds
text_encodable(text) == \A i \in 1..Len(text) : utf8_encodable(text[i])

\* json.loads accepts the text
json_valid_str(text) == \A i \in 1..Len(text) : json_valid_lexeme(text[i])

\* json.loads(text)
json_loads(text) == MapTexts(json_loads_str, text)

\* ENCRYPTION_KEY of this process
ENCRYPTION_KEY == "key"

\* fernet.encrypt(raw): a token made under the key, holding raw
fernet_encrypt(key, raw) == [fernet |-> key, plain |-> raw]

\* fernet.decrypt(token) raises InvalidToken unless the token was made under
\* the key
fernet_valid(key, token) == token.fernet = key

\* bytes that are no token of any key
Garbage == [fernet |-> "none", plain |-> EmptyDoc]

\* the memory file missing
NoMemoryFile == [kind |-> "absent", data |-> Garbage]

\* the memory file holding data
MemoryFileOf(data) == [kind |-> "bytes", data |-> data]

\* the path of the memory file exists and cannot be opened (a directory)
UnreadableFile == [kind |-> "unreadable", data |-> Garbage]

\* a read_memory that lets the exception of a bad token escape
read_memory_raising(file) ==
    IF file.kind = "absent" THEN EmptyDoc
    ELSE IF file.kind = "unreadable" THEN EmptyDoc
    ELSE IF ~fernet_valid(ENCRYPTION_KEY, file.data) THEN [raised |-> "InvalidToken"]
    ELSE json_loads(MapTexts(utf8_decode_str, file.data.plain))

\* read_memory: the document of the file, the empty document when the file
\* is missing, cannot be opened, does not decrypt, does not decode or does
\* not parse (every exception is caught and logged)
read_memory(file) ==
    IF file.kind = "absent" THEN EmptyDoc
    ELSE IF file.kind = "unreadable" THEN EmptyDoc
    ELSE IF ~fernet_valid(ENCRYPTION_KEY, file.data) THEN EmptyDoc
    ELSE IF ~AllTexts(utf8_valid_str, file.data.plain) THEN EmptyDoc
    ELSE LET text == MapTexts(utf8_decode_str, file.data.plain) IN
         IF ~AllTexts(json_valid_str, text) THEN EmptyDoc
         ELSE json_loads(text)

\* a write_memory that keeps the turns the file holds and adds the newest
write_memory_merging(file, data) ==
    LET old == get_conversations(read_memory(file))
        n == Len(data.conversations)
        merged == IF n = 0 THEN data
                  ELSE [data EXCEPT !.conversations = Append(old, data.conversations[n])]
        text == json_dumps(merged)
    IN
    IF ~AllTexts(text_encodable, text) THEN file
    ELSE MemoryFileOf(fernet_encrypt(ENCRYPTION_KEY, MapTexts(utf8_encode_str, text)))

\* write_memory: the file after the call.  An exception of the serialisation
\* or of open() is caught and logged, and the file is then as it was.
write_memory(file, data) ==
    LET text == json_dumps(data) IN
    IF ~AllTexts(text_encodable, text) THEN file
    ELSE IF file.kind = "unreadable" THEN file
    ELSE MemoryFileOf(fernet_encrypt(ENCRYPTION_KEY, MapTexts(utf8_encode_str, text)))

\* history: no write_memory call yet
NoWrite ==
    [written |-> FALSE, doc |-> EmptyDoc, before |-> EmptyDoc, intact |-> FALSE,
     opened |-> FALSE]

\* history: write_memory was called with data on file
WriteOf(file, data) ==
    [written |-> TRUE, doc |-> data, before |-> read_memory(file), intact |-> TRUE,
     opened |-> file.kind # "unreadable"]

-----------------------------------------------------------------------------
(* Inputs *)

\* user_id values of the requests
UserIds == {<<"a">>, <<"a", "b">>, None}

\* prompt values of the upgrade requests
SkillPrompts == {<<"c">>, <<"b", "c">>}

\* the texts the provider returns as code
CodeTexts == {<<"x">>, <<Surrogate>>}

\* proposal_id values of the approve requests: the ids the propose requests
\* can produce, and one no proposal has
ProposalIds ==
    {proposal_id(u, p, c) : u \in UserIds \ {None}, p \in SkillPrompts,
                            c \in CodeTexts \ {<<Surrogate>>}}
    \cup {sha1_hex10(<<"z">>)}

-----------------------------------------------------------------------------
(* Requests and responses *)

Idle == [pc |-> "idle"]

\* a response: the handler, its request, the HTTP status and the body
Response(op, req, status, body) ==
    [op |-> op, req |-> req, status |-> status, body |-> body]

NoResponse == Response("none", <<>>, 0, <<>>)

\* raise HTTPException(status_code, detail), or an exception nothing catches,
\* which the framework answers with status 500
Failure(op, req, status, detail) == Response(op, req, status, [detail |-> detail])

-----------------------------------------------------------------------------
(* POST /propose-upgrade *)

\* the prompt propose_upgrade sends to the provider
propose_prompt(prompt) ==
    <<"You are a software engineer. Draft a safe Python module that provides: ">>
    \o prompt
    \o <<"\n\nInclude: function signature, brief docstring, example usage. Keep code minimal and safe (no network calls, no shell execution).">>

\* propose_upgrade up to its POST to the provider.  Without a token
\* call_hf_text raises before it posts, and the handler answers at once.
ProposeStart(t, user_id, prompt) ==
    /\ task[t] = Idle
    /\ \A u \in Tasks : u < t => task[u] # Idle
    /\ nreq < MaxRequests
    /\ nreq' = nreq + 1
    /\ LET req == [user_id |-> user_id, prompt |-> prompt] IN
       IF HF_TOKEN
       THEN /\ task' = [task EXCEPT ![t] =
                           [pc |-> "propose_await", req |-> req,
                            hf_prompt |-> propose_prompt(prompt), calls |-> 1]]
            /\ UNCHANGED last
       ELSE /\ last' = Failure("propose", req, 500, "Hugging Face token not set")
            /\ UNCHANGED task
    /\ UNCHANGED <<HF_TOKEN, ALLOW_AUTO_DEPLOY, apiKeys, ledgerVars, memoryVars>>

\* a handler that works on the ledger as it was when the request came
propose_loads_early(held, file) == held

\* the ledger propose_upgrade adds its record to: load_proposals() is called
\* after the provider call, in the piece of the handler that saves
propose_loads(held, file) == load_proposals(file)

\* propose_upgrade from the provider's answer to its response
ProposeReturn(t, reply) ==
    /\ task[t].pc = "propose_await"
    /\ task' = [task EXCEPT ![t] = Idle]
    /\ LET req == task[t].req
           r == call_hf_text(reply)
           code == r.text
           proposals == propose_loads(arrival[t], proposalsFile)
           pid == proposal_id(req.user_id, req.prompt, code)
           stored == Put(proposals, pid, new_proposal(req.user_id, req.prompt, code))
       IN
       IF ~r.ok
       THEN /\ last' = Failure("propose", req, 500, r.error)
            /\ UNCHANGED ledgerVars
       ELSE IF req.user_id = None
       THEN /\ last' = Failure("propose", req, 500, "TypeError")
            /\ UNCHANGED ledgerVars
       ELSE IF ~utf8_encodable(req.user_id \o req.prompt \o code)
       THEN /\ last' = Failure("propose", req, 500, "UnicodeEncodeError")
            /\ UNCHANGED ledgerVars
       ELSE /\ proposalsFile' = save_proposals(stored)
            /\ last' = Response("propose", req, 200,
                                 [proposal_id |-> pid, summary |-> req.prompt])
            /\ proposed' = proposed \cup {<<req.user_id, req.prompt, code>>}
            /\ lifecycle' = Put(lifecycle, pid, "Proposed")
            /\ UNCHANGED <<stagingDirExists, stagingFiles, approvedLog>>
    /\ UNCHANGED <<HF_TOKEN, ALLOW_AUTO_DEPLOY, apiKeys, memoryVars, nreq>>

-----------------------------------------------------------------------------
(* POST /approve-upgrade *)

\* approve_upgrade, which has no suspension point
ApproveUpgrade(proposal_id_, approve) ==
    /\ nreq < MaxRequests
    /\ nreq' = nreq + 1
    /\ LET req == [proposal_id |-> proposal_id_, approve |-> approve]
           proposals == load_proposals(proposalsFile)
           fname == staged_path(proposal_id_)
       IN
       IF ~found(proposals, proposal_id_)
       THEN /\ proposalsFile' = not_found_file(proposalsFile)
            /\ last' = Failure("approve", req, 404, "Proposal not found")
            /\ UNCHANGED <<stagingDirExists, stagingFiles, approvedLog, lifecycle,
                           proposed>>
       ELSE LET p == proposals[proposal_id_] IN
            IF ~approve
            THEN /\ proposalsFile' =
                       save_proposals(Put(proposals, proposal_id_, reject_record(p)))
                 /\ stagingFiles' = reject_staging(stagingFiles, fname, p)
                 /\ last' = Response("approve", req, 200, [status |-> "rejected"])
                 /\ lifecycle' = Put(lifecycle, proposal_id_, "Rejected")
                 /\ UNCHANGED <<stagingDirExists, approvedLog, proposed>>
            ELSE /\ stagingDirExists' = TRUE
                 /\ stagingFiles' =
                       auto_deploy(ALLOW_AUTO_DEPLOY,
                                   write_staged(stagingFiles, fname, p), proposal_id_, p)
                 /\ proposalsFile' =
                       save_proposals(Put(proposals, proposal_id_, approve_record(p, fname)))
                 /\ last' = Response("approve", req, 200,
                                      [status |-> "staged", file |-> fname])
                 /\ approvedLog' = approvedLog \cup {proposal_id_}
                 /\ lifecycle' = Put(lifecycle, proposal_id_, "Staged")
                 /\ UNCHANGED proposed
    /\ UNCHANGED <<HF_TOKEN, ALLOW_AUTO_DEPLOY, apiKeys, memoryVars, task>>

-----------------------------------------------------------------------------
(* The proposal lifecycle: the server receiving upgrade requests *)

Init ==
    /\ HF_TOKEN \in BOOLEAN
    /\ ALLOW_AUTO_DEPLOY \in BOOLEAN
    /\ apiKeys = {}
    /\ proposalsFile \in {AbsentFile, CorruptFile}
    /\ stagingDirExists = FALSE
    /\ stagingFiles = EmptyMap
    /\ memoryFile = NoMemoryFile
    /\ task = [t \in Tasks |-> Idle]
    /\ last = NoResponse
    /\ nreq = 0
    /\ approvedLog = {}
    /\ lifecycle = EmptyMap
    /\ proposed = {}
    /\ arrival = [t \in Tasks |-> EmptyMap]
    /\ overtaken = {}
    /\ turns = <<>>
    /\ fresh = NoWrite
    /\ fileVersion = 0
    /\ gatewayLog = <<>>

Next ==
    /\ \/ \E t \in Tasks, u \in UserIds, p \in SkillPrompts : ProposeStart(t, u, p)
       \/ \E t \in Tasks, reply \in Replies(CodeTexts) : ProposeReturn(t, reply)
       \/ \E id \in ProposalIds, approve \in BOOLEAN : ApproveUpgrade(id, approve)
    /\ UNCHANGED raceVars

Spec == Init /\ [][Next]_vars

-----------------------------------------------------------------------------
(* Properties of the proposal lifecycle *)

\* the ledger as the handlers read it
Ledger == load_proposals(proposalsFile)

\* the step is approve_upgrade answering the request (id, approve)
ApproveStep(id, approve) ==
    /\ nreq' = nreq + 1
    /\ task' = task
    /\ last'.op = "approve"
    /\ last'.req = [proposal_id |-> id, approve |-> approve]

\* the step is propose_upgrade answering
ProposeStep == last'.op = "propose" /\ (nreq' = nreq + 1 \/ task' # task)

\* the three states of a proposal, read from its record; a rejected record
\* differs from a fresh one only by its history
IsProposed(id) ==
    /\ id \in DOMAIN Ledger
    /\ ~Ledger[id].approved /\ Ledger[id].staged_file = NoFile
    /\ lifecycle[id] = "Proposed"

IsStaged(id) ==
    /\ id \in DOMAIN Ledger
    /\ Ledger[id].approved /\ Ledger[id].staged_file # NoFile

IsRejected(id) ==
    /\ id \in DOMAIN Ledger
    /\ ~Ledger[id].approved
    /\ lifecycle[id] = "Rejected"

\* C1: a staged file exists only for an id that an approve(id, true) request
\* found in the ledger earlier, and a step that creates or changes a staged
\* file is such a request: neither propose nor approve(id, false) does.
C1_ApprovalGate ==
    [][ /\ \A f \in DOMAIN stagingFiles' :
              \E id \in approvedLog' : f = <<"staging_skills/skill_", id, ".py">>
        /\ stagingFiles' # stagingFiles =>
              \E id \in DOMAIN Ledger :
                  ApproveStep(id, TRUE) /\ last'.status = 200 ]_vars

\* C1 witness: a rejection was answered for a proposal that has no staged
\* file, while another proposal has one
C1_Witness ==
    /\ last.op = "approve" /\ last.status = 200 /\ last.body.status = "rejected"
    /\ staged_path(last.req.proposal_id) \notin DOMAIN stagingFiles
    /\ DOMAIN stagingFiles # {}

\* C2 as stated: under approve requests Staged and Rejected are terminal, a
\* Staged proposal is never made Rejected and a Rejected one never Staged.
C2_Terminal ==
    [][ \A id \in DOMAIN Ledger, b \in BOOLEAN :
          ApproveStep(id, b) =>
              /\ IsStaged(id) => ~IsRejected(id)'
              /\ IsRejected(id) => ~IsStaged(id)' ]_vars

\* C3 as stated: once a proposal id has been Staged, no later operation
\* leaves a record for that id with approved = false and no staged_file.
C3_NoWayBackToProposed ==
    \A id \in approvedLog :
        id \in DOMAIN Ledger =>
            ~(~Ledger[id].approved /\ Ledger[id].staged_file = NoFile)

\* C4 as stated: every triple proposed has its entry under its id, and the
\* ledger holds as many entries as distinct triples were proposed.
C4_OneEntryPerTriple ==
    /\ \A tr \in proposed : proposal_id(tr[1], tr[2], tr[3]) \in DOMAIN Ledger
    /\ Cardinality(DOMAIN Ledger) = Cardinality(proposed)

\* C5: approve(id, true) on a known Proposed id answers "staged" with the
\* path staging_skills/skill_<id>.py, leaves the record approved with that
\* path as staged_file, and leaves at that path the disclaimer followed by
\* the proposal's code.
C5_ApproveStages ==
    [][ \A id \in DOMAIN Ledger :
          (IsProposed(id) /\ ApproveStep(id, TRUE)) =>
              LET path == <<"staging_skills/skill_", id, ".py">> IN
              /\ last'.status = 200
              /\ last'.body = [status |-> "staged", file |-> path]
              /\ Ledger'[id] = [Ledger[id] EXCEPT !.approved = TRUE,
                                                  !.staged_file = path]
              /\ stagingDirExists'
              /\ path \in DOMAIN stagingFiles'
              /\ stagingFiles'[path] =
                    <<"# Auto-generated skill - review before enabling">>
                    \o Ledger[id].code ]_vars

\* C5 witness: the last response staged a proposal, whose file is there
C5_Witness ==
    /\ last.op = "approve" /\ last.status = 200 /\ last.body.status = "staged"
    /\ last.body.file \in DOMAIN stagingFiles
    /\ IsStaged(last.req.proposal_id)

\* C6: approve(id, b) on an id the ledger lacks answers 404 "Proposal not
\* found" and changes neither the ledger file, nor the staging directory,
\* nor the memory file.
C6_UnknownIdNotFound ==
    [][ \A id \in ProposalIds, b \in BOOLEAN :
          (id \notin DOMAIN Ledger /\ ApproveStep(id, b)) =>
              /\ last'.status = 404
              /\ last'.body = [detail |-> "Proposal not found"]
              /\ proposalsFile' = proposalsFile
              /\ stagingDirExists' = stagingDirExists
              /\ stagingFiles' = stagingFiles
              /\ memoryFile' = memoryFile ]_vars

\* C6 witness: an approval of an unknown id was answered 404 while the
\* ledger and the staging directory hold other proposals
C6_Witness ==
    /\ last.op = "approve" /\ last.status = 404 /\ last.req.approve
    /\ DOMAIN Ledger # {}
    /\ DOMAIN stagingFiles # {}

\* C16: the outcome of approve_upgrade is a function of the request and of
\* the ledger, which the auto-deploy flag does not enter: with the flag on as
\* with it off, the response, the ledger and the staged file are the same, and
\* nothing but the ledger file, the staging directory and the one staged file
\* of the request is touched.
C16_FlagHasNoEffect ==
    [][ \A id \in ProposalIds, b \in BOOLEAN :
          ApproveStep(id, b) =>
              LET path == <<"staging_skills/skill_", id, ".py">>
                  known == id \in DOMAIN Ledger
                  staged == known /\ b
              IN
              /\ last'.status = (IF known THEN 200 ELSE 404)
              /\ last'.body =
                    (IF ~known THEN [detail |-> "Proposal not found"]
                     ELSE IF b THEN [status |-> "staged", file |-> path]
                     ELSE [status |-> "rejected"])
              /\ Ledger' =
                    (IF ~known THEN Ledger
                     ELSE IF b
                     THEN [Ledger EXCEPT ![id].approved = TRUE, ![id].staged_file = path]
                     ELSE [Ledger EXCEPT ![id].approved = FALSE])
              /\ DOMAIN stagingFiles' =
                    (IF staged THEN DOMAIN stagingFiles \cup {path}
                     ELSE DOMAIN stagingFiles)
              /\ \A f \in DOMAIN stagingFiles' :
                    stagingFiles'[f] =
                       (IF staged /\ f = path
                        THEN <<"# Auto-generated skill - review before enabling">>
                             \o Ledger[id].code
                        ELSE stagingFiles[f])
              /\ stagingDirExists' = (stagingDirExists \/ staged)
              /\ memoryFile' = memoryFile
              /\ ALLOW_AUTO_DEPLOY' = ALLOW_AUTO_DEPLOY ]_vars

\* C16 witness: with the flag on an approval was answered "staged", and the
\* one file there is is the staged file of that proposal
C16_Witness ==
    /\ ALLOW_AUTO_DEPLOY
    /\ last.op = "approve" /\ last.status = 200 /\ last.body.status = "staged"
    /\ DOMAIN stagingFiles = {staged_path(last.req.proposal_id)}

-----------------------------------------------------------------------------
(* POST /chat *)

\* conversation_history[-200:]
MaxConversations == 200

\* (...)[:2000]
MaxSummary == 2000

Min(a, b) == IF a < b THEN a ELSE b

\* s[:n]
Take(s, n) == SubSeq(s, 1, Min(n, Len(s)))

\* s[-n:]
LastN(s, n) == SubSeq(s, Len(s) - Min(n, Len(s)) + 1, Len(s))

\* number of whitespace characters s starts with
LeadingSpace(s) ==
    CHOOSE k \in 0..Len(s) :
        /\ \A i \in 1..k : s[i] \in Whitespace
        /\ k = Len(s) \/ s[k + 1] \notin Whitespace

\* number of whitespace characters s ends with
TrailingSpace(s) ==
    CHOOSE k \in 0..Len(s) :
        /\ \A i \in 1..k : s[Len(s) + 1 - i] \in Whitespace
        /\ k = Len(s) \/ s[Len(s) - k] \notin Whitespace

\* str.strip()
strip(s) == SubSeq(s, LeadingSpace(s) + 1, Len(s) - TrailingSpace(s))

\* memory after "Save conversation locally": the turn appended, the last 200 kept
append_turn(memory, prompt, resp) ==
    [memory EXCEPT
        !.keys = @ \cup {"conversations"},
        !.conversations =
            LastN(Append(get_conversations(memory),
                         [prompt |-> prompt, response |-> resp]),
                  MaxConversations)]

\* a summary trimmed at its head
append_summary_head(mem_summary, summ) ==
    LastN(strip(mem_summary) \o <<" ">> \o strip(summ), MaxSummary)

\* the new rolling summary
append_summary(mem_summary, summ) ==
    Take(strip(mem_summary) \o <<" ">> \o strip(summ), MaxSummary)

\* memory after the learning step
learn(memory, summ) ==
    [memory EXCEPT !.keys = @ \cup {"summary"},
                   !.summary = append_summary(get_summary(memory), summ)]

\* a learning step that runs without consent
learns_always(req) == TRUE

\* the consent gate: the learning step runs
learns(req) == req.allow_learn

\* a learning step whose failure fails the chat
learning_outcome_surfacing(req, resp, r) ==
    IF r.ok THEN Response("chat", req, 200, [response |-> resp])
    ELSE Failure("chat", req, 500, r.error)

\* the response of a chat whose learning step ended with r: the exception of
\* a failed step is caught and logged, and the handler returns resp
learning_outcome(req, resp, r) == Response("chat", req, 200, [response |-> resp])

\* a learning step that schedules the write of the turn though no summary came
after_learning_writing(w, r) ==
    [pc |-> "write_scheduled", req |-> w.req,
     memory |-> IF r.ok THEN learn(w.memory, r.text) ELSE w.memory,
     seen |-> w.seen]

\* what is left of the request w after its learning step ended with r: a
\* summary updates the document and schedules write_memory with it; an
\* exception skips both, and the document the handler built is dropped
after_learning(w, r) ==
    IF r.ok
    THEN [pc |-> "write_scheduled", req |-> w.req,
          memory |-> learn(w.memory, r.text), seen |-> w.seen]
    ELSE Idle

\* chat up to its first POST to the provider.  Without a token call_hf_text
\* raises before it posts, and the handler answers at once.  The prompts the
\* handler sends are not kept: the provider answers what it will.
ChatStart(t, prompt, allow_learn) ==
    /\ task[t] = Idle
    /\ \A u \in Tasks : u < t => task[u] # Idle
    /\ nreq < MaxChats
    /\ nreq' = nreq + 1
    /\ LET req == [prompt |-> prompt, allow_learn |-> allow_learn]
           memory == read_memory(memoryFile)
           noToken == [ok |-> FALSE, error |-> "Hugging Face token not set",
                       posts |-> <<>>]
       IN
       IF HF_TOKEN
       THEN /\ task' = [task EXCEPT ![t] =
                           [pc |-> "chat_await", req |-> req, memory |-> memory,
                            seen |-> fileVersion]]
            /\ UNCHANGED <<last, gatewayLog>>
       ELSE /\ last' = Failure("chat", req, 500, noToken.error)
            /\ gatewayLog' = <<noToken>>
            /\ UNCHANGED task
    /\ UNCHANGED <<HF_TOKEN, ALLOW_AUTO_DEPLOY, apiKeys, ledgerVars, memoryFile, turns, fresh, fileVersion>>

\* chat from the provider's first answer to the second POST, or to the
\* response when the learning step does not run
ChatAnswer(t, reply) ==
    /\ task[t].pc = "chat_await"
    /\ LET req == task[t].req
           r == call_hf_text(reply)
           log == <<r>>
       IN
       IF ~r.ok
       THEN /\ last' = Failure("chat", req, 500, r.error)
            /\ gatewayLog' = log
            /\ task' = [task EXCEPT ![t] = Idle]
            /\ UNCHANGED turns
       ELSE LET memory == append_turn(task[t].memory, req.prompt, r.text) IN
            IF learns(req)
            THEN /\ task' = [task EXCEPT ![t] =
                                [pc |-> "learn_await", req |-> req, memory |-> memory,
                                 resp |-> r.text, calls |-> log,
                                 seen |-> task[t].seen]]
                 /\ UNCHANGED <<last, gatewayLog, turns>>
            ELSE /\ last' = Response("chat", req, 200, [response |-> r.text])
                 /\ gatewayLog' = log
                 /\ turns' = Append(turns, [prompt |-> req.prompt, response |-> r.text])
                 /\ task' = [task EXCEPT ![t] = Idle]
    /\ UNCHANGED <<HF_TOKEN, ALLOW_AUTO_DEPLOY, apiKeys, ledgerVars, memoryFile, fresh, fileVersion, nreq>>

\* chat from the provider's second answer to the response: a summary updates
\* the document and schedules write_memory, a failure is logged
ChatLearn(t, reply) ==
    /\ task[t].pc = "learn_await"
    /\ LET req == task[t].req
           r == call_hf_text(reply)
       IN
       /\ last' = learning_outcome(req, task[t].resp, r)
       /\ gatewayLog' = task[t].calls \o <<r>>
       /\ turns' = Append(turns, [prompt |-> req.prompt, response |-> task[t].resp])
       /\ task' = [task EXCEPT ![t] = after_learning(task[t], r)]
    /\ UNCHANGED <<HF_TOKEN, ALLOW_AUTO_DEPLOY, apiKeys, ledgerVars, memoryFile, fresh, fileVersion, nreq>>

\* the background task, run after the response was sent: write_memory(memory)
BackgroundWrite(t) ==
    /\ task[t].pc = "write_scheduled"
    /\ memoryFile' = write_memory(memoryFile, task[t].memory)
    /\ fileVersion' = IF AllTexts(utf8_encodable, task[t].memory)
                      THEN fileVersion + 1 ELSE fileVersion
    /\ task' = [task EXCEPT ![t] = Idle]
    /\ UNCHANGED <<HF_TOKEN, ALLOW_AUTO_DEPLOY, apiKeys, ledgerVars, turns, fresh, gatewayLog,
                   last, nreq>>

-----------------------------------------------------------------------------
(* The chat endpoint: the server receiving chat requests *)

ChatPrompts == {<<"h">>}

\* the texts the provider returns as answers
AnswerTexts == {<<"o">>}

LongText == <<" ">> \o [i \in 1..LongLen |-> "x"] \o <<"\n">>

\* the texts the provider returns as summaries
SummaryTexts == {LongText, <<Surrogate>>}

\* a memory document an earlier run left: a full history and a long summary
FullDoc ==
    [keys |-> {"conversations", "summary"},
     conversations |->
        [i \in 1..MaxConversations |->
            [prompt |-> IF i % 2 = 0 THEN <<"h">> ELSE <<"y">>, response |-> <<"o">>]],
     summary |-> LongText]

InitChat ==
    /\ HF_TOKEN \in BOOLEAN
    /\ ALLOW_AUTO_DEPLOY = FALSE
    /\ apiKeys = {}
    /\ proposalsFile = AbsentFile
    /\ stagingDirExists = FALSE
    /\ stagingFiles = EmptyMap
    /\ memoryFile \in {NoMemoryFile, MemoryFileOf(Garbage),
                        write_memory(NoMemoryFile, FullDoc)}
    /\ task = [t \in Tasks |-> Idle]
    /\ last = NoResponse
    /\ nreq = 0
    /\ approvedLog = {}
    /\ lifecycle = EmptyMap
    /\ proposed = {}
    /\ arrival = [t \in Tasks |-> EmptyMap]
    /\ overtaken = {}
    /\ turns = get_conversations(read_memory(memoryFile))
    /\ fresh = NoWrite
    /\ fileVersion = 0
    /\ gatewayLog = <<>>

\* the answers of the provider to a chat: a failure, or one of the texts
ChatReplies(texts) ==
    {[kind |-> "http_error"]} \cup {[kind |-> "generations", generated_text |-> t] : t \in texts}

NextChat ==
    /\ \/ \E t \in Tasks, p \in ChatPrompts, learn_ \in BOOLEAN : ChatStart(t, p, learn_)
       \/ \E t \in Tasks, reply \in ChatReplies(AnswerTexts) : ChatAnswer(t, reply)
       \/ \E t \in Tasks, reply \in ChatReplies(SummaryTexts) : ChatLearn(t, reply)
       \/ \E t \in Tasks : BackgroundWrite(t)
    /\ UNCHANGED raceVars

SpecChat == InitChat /\ [][NextChat]_vars

-----------------------------------------------------------------------------
(* Properties of the chat endpoint *)

AllIdle == \A t \in Tasks : task[t] = Idle

\* the conversation history the memory file holds
StoredConversations == get_conversations(read_memory(memoryFile))

\* C7: a chat request with allow_learn = false, whatever the memory file
\* holds, calls the gateway once, answers with the text of that call (with
\* status 500 when the call failed), schedules no write and leaves the memory
\* file as it was; the file changes only by the write a learn-enabled request
\* scheduled.
C7_ConsentGate ==
    [][ /\ \A t \in Tasks :
              (task[t].pc = "chat_await" /\ ~task[t].req.allow_learn
                 /\ task'[t] # task[t]) =>
                  /\ task'[t] = Idle
                  /\ memoryFile' = memoryFile
                  /\ Len(gatewayLog') = 1
                  /\ IF gatewayLog'[1].ok
                     THEN last' = [op |-> "chat", req |-> task[t].req, status |-> 200,
                                   body |-> [response |-> gatewayLog'[1].text]]
                     ELSE last'.op = "chat" /\ last'.status = 500
        /\ memoryFile' # memoryFile =>
              \E t \in Tasks : /\ task[t].pc = "write_scheduled"
                                /\ task[t].req.allow_learn
                                /\ task'[t] = Idle ]_vars

\* C7 witness: a chat without consent was answered from one gateway call
\* while the memory file holds a document of earlier turns
C7_Witness ==
    /\ last.op = "chat" /\ last.status = 200 /\ ~last.req.allow_learn
    /\ Len(gatewayLog) = 1
    /\ AllIdle
    /\ Len(StoredConversations) > 0

\* C8 as stated: once the requests received are done, the stored history has
\* at most 200 entries and is the last 200 of the turns answered, in order.
C8_StoredHistory ==
    AllIdle =>
        /\ Len(StoredConversations) <= 200
        /\ StoredConversations =
              SubSeq(turns, IF Len(turns) > 200 THEN Len(turns) - 199 ELSE 1, Len(turns))

\* C9: the rolling summary never exceeds 2000 characters, in a document about
\* to be written as in the memory file, and each learning step sets it to the
\* first 2000 characters of (stripped prior summary + ' ' + stripped new
\* summary), of which the stripped prior summary is a prefix.
C9_RollingSummary ==
    [][ /\ \A t \in Tasks :
              (task[t].pc = "learn_await" /\ task'[t].pc = "write_scheduled") =>
                  LET old == strip(get_summary(task[t].memory))
                      summ == strip(gatewayLog'[2].text)
                      joined == old \o <<" ">> \o summ
                      new == task'[t].memory.summary
                  IN /\ "summary" \in task'[t].memory.keys
                     /\ Len(new) <= 2000
                     /\ new = SubSeq(joined, 1, IF Len(joined) > 2000 THEN 2000
                                                                      ELSE Len(joined))
                     /\ SubSeq(new, 1, Len(old)) = old
        /\ \A t \in Tasks :
              (task[t].pc = "write_scheduled" /\ task'[t] = Idle) =>
                  Len(get_summary(read_memory(memoryFile'))) <= 2000 ]_vars

\* C9 witness: a learning step cut the joined summary down to 2000 characters
C9_Witness ==
    \E t \in Tasks :
        /\ task[t].pc = "write_scheduled"
        /\ last.req = task[t].req
        /\ Len(gatewayLog) = 2 /\ gatewayLog[2].ok
        /\ Len(strip(gatewayLog[2].text)) > 1000
        /\ Len(task[t].memory.summary) = 2000

\* C12: in a chat with allow_learn = true whose first gateway call succeeded,
\* a failure of the second call is absorbed: the handler answers 200 with the
\* text of the first call, and the response carries no error.
C12_LearningFailureAbsorbed ==
    [][ \A t \in Tasks :
          (task[t].pc = "learn_await" /\ task'[t] # task[t]
             /\ ~gatewayLog'[2].ok) =>
              /\ task[t].req.allow_learn /\ gatewayLog'[1].ok
              /\ last' = [op |-> "chat", req |-> task[t].req, status |-> 200,
                           body |-> [response |-> gatewayLog'[1].text]] ]_vars

\* C12 witness: a learn-enabled chat was answered 200 after its second
\* gateway call failed
C12_Witness ==
    /\ last.op = "chat" /\ last.req.allow_learn /\ last.status = 200
    /\ Len(gatewayLog) = 2 /\ gatewayLog[1].ok /\ ~gatewayLog[2].ok
    /\ last.body.response = gatewayLog[1].text

\* C13 as stated: a gateway call whose target reported a non-success status
\* posted a second time, to a fallback target, before it raised; and no call
\* posts a third time.
C13_FallbackOnce ==
    \A i \in 1..Len(gatewayLog) :
        /\ Len(gatewayLog[i].posts) <= 2
        /\ (~gatewayLog[i].ok /\ gatewayLog[i].error = "HTTPStatusError") =>
              /\ Len(gatewayLog[i].posts) = 2
              /\ gatewayLog[i].posts[2] # gatewayLog[i].posts[1]

-----------------------------------------------------------------------------
(* Concurrent chats: requests that differ by their prompts, on a short memory *)

ConcurrentPrompts == {<<"h">>, <<"y">>}

\* the texts the provider returns as summaries of these chats
ShortSummaries == {<<"s">>, <<"u", " ">>}

\* a memory document an earlier run left: one turn and a summary
OneTurnDoc ==
    [keys |-> {"conversations", "summary"},
     conversations |-> <<[prompt |-> <<"e">>, response |-> <<"o">>]>>,
     summary |-> <<"r">>]

InitConcurrent ==
    /\ HF_TOKEN = TRUE
    /\ ALLOW_AUTO_DEPLOY = FALSE
    /\ apiKeys = {}
    /\ proposalsFile = AbsentFile
    /\ stagingDirExists = FALSE
    /\ stagingFiles = EmptyMap
    /\ memoryFile \in {NoMemoryFile, write_memory(NoMemoryFile, OneTurnDoc)}
    /\ task = [t \in Tasks |-> Idle]
    /\ last = NoResponse
    /\ nreq = 0
    /\ approvedLog = {}
    /\ lifecycle = EmptyMap
    /\ proposed = {}
    /\ arrival = [t \in Tasks |-> EmptyMap]
    /\ overtaken = {}
    /\ turns = get_conversations(read_memory(memoryFile))
    /\ fresh = NoWrite
    /\ fileVersion = 0
    /\ gatewayLog = <<>>

NextConcurrent ==
    /\ \/ \E t \in Tasks, p \in ConcurrentPrompts, learn_ \in BOOLEAN : ChatStart(t, p, learn_)
       \/ \E t \in Tasks, reply \in ChatReplies(AnswerTexts) : ChatAnswer(t, reply)
       \/ \E t \in Tasks, reply \in ChatReplies(ShortSummaries) : ChatLearn(t, reply)
       \/ \E t \in Tasks : BackgroundWrite(t)
    /\ UNCHANGED raceVars

SpecConcurrent == InitConcurrent /\ [][NextConcurrent]_vars

\* C17: the write a chat scheduled replaces the memory file by the document
\* that request built from what it had read, whatever was written to the file
\* since: when two learn-enabled requests have read the same document, the
\* file holds after both writes the turn and the summary of the last writer
\* alone.
C17_LastWriterWins ==
    [][ \A t \in Tasks :
          (task[t].pc = "write_scheduled" /\ task'[t] = Idle) =>
              /\ read_memory(memoryFile') = task[t].memory
              /\ task[t].seen < fileVersion =>
                    Len(turns) > Len(StoredConversations') ]_vars

\* C17 witness: two learn-enabled chats with different prompts read the
\* document of one turn, both were answered and both wrote; the file holds
\* two turns, the old one and one of the two new ones, and a summary to which
\* one of the two new summaries was added
C17_Witness ==
    /\ AllIdle /\ fileVersion = 2
    /\ Len(turns) = 3 /\ turns[2].prompt # turns[3].prompt
    /\ Len(StoredConversations) = 2
    /\ StoredConversations[1] = turns[1]
    /\ StoredConversations[2] \in {turns[2], turns[3]}
    /\ get_summary(read_memory(memoryFile)) \in {<<"r", " ", "s">>, <<"r", " ", "u">>}

\* C20: the memory file changes only by the write a chat scheduled, and a
\* chat schedules a write only with allow_learn = true and after both of its
\* gateway calls succeeded.  A chat whose first call failed answers 500,
\* schedules nothing and leaves the file as it was; a chat whose second call
\* failed schedules nothing either and drops the document it had built, so
\* its turn does not reach the file.
C20_WriteOnlyAfterBothCalls ==
    [][ /\ memoryFile' # memoryFile =>
              \E t \in Tasks :
                  /\ task[t].pc = "write_scheduled" /\ task'[t] = Idle
                  /\ task[t].req.allow_learn
                  /\ memoryFile' = write_memory(memoryFile, task[t].memory)
        /\ \A t \in Tasks :
              (task[t].pc # "write_scheduled" /\ task'[t].pc = "write_scheduled") =>
                  /\ task[t].pc = "learn_await" /\ task[t].req.allow_learn
                  /\ Len(gatewayLog') = 2 /\ gatewayLog'[1].ok /\ gatewayLog'[2].ok
                  /\ memoryFile' = memoryFile
        /\ \A t \in Tasks :
              (task[t].pc = "chat_await" /\ task'[t].pc # "learn_await"
                 /\ task'[t] # task[t] /\ ~gatewayLog'[1].ok) =>
                  /\ task'[t] = Idle
                  /\ last'.op = "chat" /\ last'.status = 500
                  /\ memoryFile' = memoryFile
        /\ \A t \in Tasks :
              (task[t].pc = "learn_await" /\ task'[t] # task[t] /\ ~gatewayLog'[2].ok) =>
                  /\ task'[t] = Idle
                  /\ memoryFile' = memoryFile ]_vars

\* C20 witness: a learn-enabled chat was answered after its summarisation
\* call failed; no request is left, no write was made, and the file an earlier
\* run left holds the turns answered except that one
C20_Witness ==
    /\ last.op = "chat" /\ last.req.allow_learn /\ last.status = 200
    /\ Len(gatewayLog) = 2 /\ gatewayLog[1].ok /\ ~gatewayLog[2].ok
    /\ AllIdle /\ fileVersion = 0
    /\ memoryFile # NoMemoryFile
    /\ turns = Append(StoredConversations,
                      [prompt |-> last.req.prompt, response |-> last.body.response])

-----------------------------------------------------------------------------
(* Concurrent requests on the proposal ledger: propose_upgrade suspended at
   its provider call while other requests load and save proposals.json *)

\* user_id values of the concurrent upgrade requests
RaceUserIds == UserIds \ {None}

\* the code the provider returns to them
RaceCodes == {<<"x">>}

InitRace ==
    /\ HF_TOKEN = TRUE
    /\ ALLOW_AUTO_DEPLOY = FALSE
    /\ apiKeys = {}
    /\ proposalsFile = AbsentFile
    /\ stagingDirExists = FALSE
    /\ stagingFiles = EmptyMap
    /\ memoryFile = NoMemoryFile
    /\ task = [t \in Tasks |-> Idle]
    /\ last = NoResponse
    /\ nreq = 0
    /\ approvedLog = {}
    /\ lifecycle = EmptyMap
    /\ proposed = {}
    /\ arrival = [t \in Tasks |-> EmptyMap]
    /\ overtaken = {}
    /\ turns = <<>>
    /\ fresh = NoWrite
    /\ gatewayLog = <<>>
    /\ fileVersion = 0

\* propose_upgrade up to its provider call; history: the ledger at that moment
RaceProposeStart(t, user_id, prompt) ==
    /\ ProposeStart(t, user_id, prompt)
    /\ arrival' = [arrival EXCEPT ![t] = Ledger]
    /\ UNCHANGED overtaken

\* propose_upgrade from the provider's answer on; history: whether the record
\* it saved over had been written since the request came
RaceProposeReturn(t, reply) ==
    /\ ProposeReturn(t, reply)
    /\ overtaken' =
          IF /\ last'.status = 200
             /\ last'.body.proposal_id \in DOMAIN Ledger
             /\ \/ last'.body.proposal_id \notin DOMAIN arrival[t]
                \/ Ledger[last'.body.proposal_id] # arrival[t][last'.body.proposal_id]
          THEN overtaken \cup {last'.body.proposal_id}
          ELSE overtaken
    /\ arrival' = [arrival EXCEPT ![t] = EmptyMap]

RaceApproveUpgrade(id, approve) ==
    /\ ApproveUpgrade(id, approve)
    /\ UNCHANGED raceVars

NextRace ==
    \/ \E t \in Tasks, u \in RaceUserIds, p \in SkillPrompts : RaceProposeStart(t, u, p)
    \/ \E t \in Tasks, reply \in ChatReplies(RaceCodes) : RaceProposeReturn(t, reply)
    \/ \E id \in ProposalIds, approve \in BOOLEAN : RaceApproveUpgrade(id, approve)

SpecRace == InitRace /\ [][NextRace]_vars

\* the step is propose_upgrade of slot t saving its record under pid
ProposeSaves(t, pid) ==
    /\ task[t].pc = "propose_await" /\ task'[t] = Idle
    /\ last'.op = "propose" /\ last'.status = 200
    /\ last'.body.proposal_id = pid

\* C18: a propose request that saves replaces whatever record the ledger holds
\* under its id by its own fresh record, unapproved and without staged_file,
\* so a record or an approval another request wrote under that id while it was
\* suspended at its provider call is not in the ledger afterwards, though that
\* request completed successfully and its staged file stays.  The loss is
\* confined to that id: the save keeps every other record as the file holds it.
C18_SaveOverwritesConcurrentWrite ==
    [][ \A t \in Tasks, pid \in ProposalIds :
          ProposeSaves(t, pid) =>
              /\ Ledger'[pid].user_id = task[t].req.user_id
              /\ Ledger'[pid].prompt = task[t].req.prompt
              /\ ~Ledger'[pid].approved /\ Ledger'[pid].staged_file = NoFile
              /\ stagingFiles' = stagingFiles
              /\ DOMAIN Ledger' = DOMAIN Ledger \cup {pid}
              /\ \A id \in DOMAIN Ledger \ {pid} : Ledger'[id] = Ledger[id] ]_vars

\* C18 witness: of three requests, an approve(id, true) completed while a
\* propose request that yields the same id was suspended; that request then
\* saved and was answered 200, and the ledger lacks the approval: the record
\* is unapproved and names no staged file, while the staged file exists
C18_Witness ==
    /\ nreq = 3 /\ \A t \in Tasks : task[t] = Idle
    /\ last.op = "propose" /\ last.status = 200
    /\ last.body.proposal_id \in overtaken
    /\ last.body.proposal_id \in approvedLog
    /\ staged_path(last.body.proposal_id) \in DOMAIN stagingFiles
    /\ ~Ledger[last.body.proposal_id].approved
    /\ Ledger[last.body.proposal_id].staged_file = NoFile

-----------------------------------------------------------------------------
(* The memory store on its own: write_memory and read_memory called with any
   document, and the file damaged from outside *)

\* what the last call returned
Returned(op, value) == Response(op, <<>>, 0, value)

StoreTexts ==
    {<<>>, <<"a", Quote>>, <<Backslash, "n">>, <<"\n", NonAscii>>, <<"a", Surrogate>>}

StoreConversations ==
    {<<>>,
     <<[prompt |-> <<"a", Quote>>, response |-> <<Backslash, "n">>]>>,
     <<[prompt |-> <<"h">>, response |-> <<Surrogate>>]>>,
     <<[prompt |-> <<"h">>, response |-> <<NonAscii>>],
       [prompt |-> <<"y">>, response |-> <<>>]>>}

\* the documents handed to write_memory
StoreDocs ==
    {[keys |-> k, conversations |-> c, summary |-> s] :
        k \in SUBSET {"conversations", "summary"},
        c \in StoreConversations, s \in StoreTexts}

\* a document as read_memory can return it: a missing key has no value
WellFormed(d) ==
    /\ "conversations" \notin d.keys => d.conversations = <<>>
    /\ "summary" \notin d.keys => d.summary = <<>>

\* a token of this key over bytes that are no JSON: a quote is not escaped
BadJson == [EmptyDoc EXCEPT !.keys = {"summary"}, !.summary = << << <<Quote>> >> >>]

\* a token of this key over bytes that are no UTF-8: a sequence is cut short
BadUtf8 == [EmptyDoc EXCEPT !.keys = {"summary"}, !.summary = << << <<"0xC3">> >> >>]

\* what the file can become without write_memory: removed, overwritten with
\* other bytes, or replaced by a token made under another key
DamagedFiles ==
    {NoMemoryFile, UnreadableFile, MemoryFileOf(Garbage),
     MemoryFileOf(fernet_encrypt("another key", EmptyDoc)),
     MemoryFileOf(fernet_encrypt(ENCRYPTION_KEY, BadJson)),
     MemoryFileOf(fernet_encrypt(ENCRYPTION_KEY, BadUtf8))}

StoreWrite(data) ==
    /\ WellFormed(data)
    /\ memoryFile' = write_memory(memoryFile, data)
    /\ fresh' = WriteOf(memoryFile, data)
    /\ last' = Returned("write_memory", <<>>)
    /\ UNCHANGED <<HF_TOKEN, ALLOW_AUTO_DEPLOY, apiKeys, ledgerVars, task, nreq, turns,
                   gatewayLog, fileVersion>>

StoreRead ==
    /\ last' = Returned("read_memory", read_memory(memoryFile))
    /\ UNCHANGED <<HF_TOKEN, ALLOW_AUTO_DEPLOY, apiKeys, ledgerVars, task, nreq, memoryVars>>

StoreDamage(file) ==
    /\ memoryFile' = file
    /\ fresh' = [fresh EXCEPT !.intact = FALSE]
    /\ last' = Returned("damage", <<>>)
    /\ UNCHANGED <<HF_TOKEN, ALLOW_AUTO_DEPLOY, apiKeys, ledgerVars, task, nreq, turns,
                   gatewayLog, fileVersion>>

\* GET /proposals: list_proposals returns load_proposals()
ListProposals ==
    /\ last' = Response("list", <<>>, 200, load_proposals(proposalsFile))
    /\ UNCHANGED <<HF_TOKEN, ALLOW_AUTO_DEPLOY, apiKeys, ledgerVars, task, nreq, memoryVars>>

\* a ledger an earlier run left
OneProposal ==
    Put(EmptyMap, proposal_id(<<"a">>, <<"c">>, <<"x">>),
        new_proposal(<<"a">>, <<"c">>, <<"x">>))

InitStore ==
    /\ HF_TOKEN = FALSE
    /\ ALLOW_AUTO_DEPLOY = FALSE
    /\ apiKeys = {}
    /\ proposalsFile \in {AbsentFile, CorruptFile, save_proposals(OneProposal)}
    /\ stagingDirExists = FALSE
    /\ stagingFiles = EmptyMap
    /\ memoryFile = NoMemoryFile
    /\ task = [t \in Tasks |-> Idle]
    /\ last = NoResponse
    /\ nreq = 0
    /\ approvedLog = {}
    /\ lifecycle = EmptyMap
    /\ proposed = {}
    /\ arrival = [t \in Tasks |-> EmptyMap]
    /\ overtaken = {}
    /\ turns = <<>>
    /\ fresh = NoWrite
    /\ fileVersion = 0
    /\ gatewayLog = <<>>

NextStore ==
    /\ \/ \E data \in StoreDocs : StoreWrite(data)
       \/ StoreRead
       \/ \E file \in DamagedFiles : StoreDamage(file)
       \/ ListProposals
    /\ UNCHANGED raceVars

SpecStore == InitStore /\ [][NextStore]_vars

\* read_memory returned last, after a write_memory that nothing followed
ReadAfterWrite == last.op = "read_memory" /\ fresh.written /\ fresh.intact

\* C10 as stated: for every memory document D, read() after write(D), with
\* no write and no damage between, returns D.
C10_ReadAfterWriteAnyDoc == ReadAfterWrite => last.body = fresh.doc

\* What the store does guarantee: read() after write(D) returns D for every
\* D whose texts UTF-8 can encode, written to a path that can be opened;
\* otherwise write_memory leaves the file as it was, and read() returns what
\* it returned before.
RoundTripOfEncodable ==
    ReadAfterWrite =>
        IF AllTexts(utf8_encodable, fresh.doc) /\ fresh.opened
        THEN last.body = fresh.doc
        ELSE last.body = fresh.before

\* a document with a history of two turns and characters that JSON escapes
\* and UTF-8 spreads over two bytes was written over another and read back
RoundTripReached ==
    /\ ReadAfterWrite
    /\ last.body = fresh.doc
    /\ fresh.before # fresh.doc /\ fresh.before # EmptyDoc
    /\ Len(fresh.doc.conversations) = 2
    /\ fresh.doc.summary = <<"\n", NonAscii>>

\* C11: read_memory on a memory file that is absent, cannot be opened, is no
\* token of the key, or decrypts to bytes that are not UTF-8 or not JSON,
\* returns the empty document and raises nothing; list_proposals on a ledger
\* file that is missing or does not parse answers the empty ledger.
C11_FailOpen ==
    /\ ( /\ last.op = "read_memory"
          /\ \/ memoryFile.kind \in {"absent", "unreadable"}
             \/ memoryFile.data.fernet # "key"
             \/ memoryFile.data.plain \in {BadJson, BadUtf8} )
       => last.body = [keys |-> {}, conversations |-> <<>>, summary |-> <<>>]
    /\ (last.op = "list" /\ proposalsFile.kind \in {"absent", "corrupt"})
       => last.status = 200 /\ last.body = EmptyMap

\* C11 witness: a document was written, the file was then replaced by a
\* token over bytes that are no JSON, and read_memory returned the empty
\* document; the ledger file of the same run does not parse
C11_Witness ==
    /\ last.op = "read_memory" /\ last.body = EmptyDoc
    /\ fresh.written /\ fresh.doc # EmptyDoc /\ ~fresh.intact
    /\ memoryFile = MemoryFileOf(fernet_encrypt(ENCRYPTION_KEY, BadJson))
    /\ proposalsFile = CorruptFile

-----------------------------------------------------------------------------
(* The orchestrator, src/main.py: the provider calls *)

\* None as a result of the workflow: a step that was not run
Null == [null |-> TRUE]

\* str.lower() of one character, for the letters of this model
lower_char(ch) ==
    CASE ch = "L" -> "l" [] ch = "O" -> "o" [] ch = "G" -> "g" [] OTHER -> ch

\* str.lower()
lower(s) == [i \in 1..Len(s) |-> lower_char(s[i])]

\* sub in s
contains(s, sub) ==
    \E i \in 1..(Len(s) - Len(sub) + 1) : SubSeq(s, i, i + Len(sub) - 1) = sub

Logo == <<"l", "o", "g", "o">>

\* (s or '') of an Optional[str]
or_empty(s) == IF s = None THEN <<>> ELSE s

\* no user_data in the request
NoData == [given |-> FALSE, fields |-> {}]

\* user_data given, with these keys
DataOf(fields) == [given |-> TRUE, fields |-> fields]

\* an image step decided by the prompt alone
wants_image_by_prompt(req) == contains(lower(req.prompt), Logo)

\* step 3 runs: 'logo' is in the lower-cased prompt or workflow name
wants_image(req) ==
    contains(lower(req.prompt), Logo) \/ contains(lower(or_empty(req.workflow)), Logo)

\* step 4 runs: user_data is given, not empty, and has an id field
wants_kyc(req) ==
    /\ req.user_data.given /\ req.user_data.fields # {}
    /\ ("id_number" \in req.user_data.fields \/ "id_image" \in req.user_data.fields)

\* call_vertex: a placeholder, or an error payload without the key
call_vertex(keys) ==
    IF "GOOGLE_API_KEY" \notin keys
    THEN [error |-> "GOOGLE_API_KEY not set", text |-> <<>>]
    ELSE [raw |-> EmptyMap,
          text |-> <<"Vertex call placeholder - integrate with service account.">>]

\* call_canva_design, which run_workflow does not call
call_canva_design(keys) ==
    IF "CANVA_API_KEY" \notin keys
    THEN [error |-> "CANVA_API_KEY not set"]
    ELSE [raw |-> EmptyMap, result_url |-> "https://canva.com/project/placeholder"]

\* call_onfido_kyc: a placeholder, or an error payload without the key
call_onfido_kyc(keys) ==
    IF "ONFIDO_API_KEY" \notin keys
    THEN [error |-> "ONFIDO_API_KEY not set"]
    ELSE [raw |-> EmptyMap, status |-> "ok", score |-> "low-risk-placeholder"]

\* call_image_gen without the key
image_gen_unset == [error |-> "REPLICATE_API_KEY not set"]

\* call_image_gen with the key, once its POST has been answered: the JSON body
image_gen(reply) ==
    IF reply.kind = "http_error" THEN [ok |-> FALSE, error |-> "HTTPStatusError"]
    ELSE [ok |-> TRUE, value |-> reply.json]

\* call_openai_chat with the key, once its POST has been answered: the
\* content of the first choice, or the body as a string
call_openai_chat(reply) ==
    CASE reply.kind = "http_error" -> [ok |-> FALSE, error |-> "HTTPStatusError"]
      [] reply.kind = "completion" ->
            [ok |-> TRUE, value |-> [raw |-> "completion", text |-> reply.content]]
      [] reply.kind = "other_json" ->
            [ok |-> TRUE, value |-> [raw |-> "other_json", text |-> reply.str]]

\* history: one event of a provider call of a workflow
Event(step, event) == [step |-> step, event |-> event]

\* a call that returned without a suspension
Ran(step) == <<Event(step, "dispatched"), Event(step, "returned")>>

\* an error handler that packages a result all the same
workflow_error_packaged(req, error) ==
    Response("run_workflow", req, 200, [status |-> "ok", result |-> [error |-> error]])

\* the except clauses of run_workflow: 502 for an HTTP status error, 500 for
\* any other exception
workflow_error(req, error) ==
    Failure("run_workflow", req, IF error = "HTTPStatusError" THEN 502 ELSE 500, error)

-----------------------------------------------------------------------------
(* POST /run-workflow *)

\* run_workflow from the image step's outcome to the POST of the marketing
\* call: the verification call, which has no suspension point, runs between.
\* The key call_openai_chat checks first was there for the analysis call.
to_marketing(w, keys) ==
    [w EXCEPT !.pc = "marketing_await",
              !.kyc = IF wants_kyc(w.req) THEN call_onfido_kyc(keys) ELSE Null,
              !.log = @ \o (IF wants_kyc(w.req) THEN Ran("kyc") ELSE <<>>)
                        \o <<Event("marketing", "dispatched")>>]

\* run_workflow up to the POST of the analysis call.  Without the key
\* call_openai_chat raises before it posts, and the handler answers at once.
RunWorkflowStart(t, prompt, workflow, user_data) ==
    /\ task[t] = Idle
    /\ \A u \in Tasks : u < t => task[u] # Idle
    /\ nreq < MaxWorkflows
    /\ nreq' = nreq + 1
    /\ LET req == [prompt |-> prompt, workflow |-> workflow, user_data |-> user_data] IN
       IF "OPENAI_API_KEY" \in apiKeys
       THEN /\ task' = [task EXCEPT ![t] =
                           [pc |-> "analysis_await", req |-> req,
                            log |-> <<Event("analysis", "dispatched")>>,
                            llm1 |-> Null, vertex |-> Null, image |-> Null,
                            kyc |-> Null]]
            /\ UNCHANGED <<last, gatewayLog>>
       ELSE /\ last' = workflow_error(req, "OpenAI API key missing")
            /\ gatewayLog' = <<Event("analysis", "dispatched"), Event("analysis", "raised")>>
            /\ UNCHANGED task
    /\ UNCHANGED <<HF_TOKEN, ALLOW_AUTO_DEPLOY, apiKeys, ledgerVars, memoryFile, turns, fresh, fileVersion>>

\* run_workflow from the answer to the analysis call to the next POST: the
\* trend check, which has no suspension point, then the image call or, when
\* that does not post, on to the marketing call
RunWorkflowAnalysis(t, reply) ==
    /\ task[t].pc = "analysis_await"
    /\ LET w == task[t]
           r == call_openai_chat(reply)
       IN
       IF ~r.ok
       THEN /\ last' = workflow_error(w.req, r.error)
            /\ gatewayLog' = Append(w.log, Event("analysis", "raised"))
            /\ task' = [task EXCEPT ![t] = Idle]
       ELSE LET w2 == [w EXCEPT !.llm1 = r.value,
                                !.vertex = call_vertex(apiKeys),
                                !.log = Append(@, Event("analysis", "returned"))
                                        \o Ran("vertex")]
            IN
            /\ UNCHANGED <<last, gatewayLog>>
            /\ IF ~wants_image(w.req)
               THEN task' = [task EXCEPT ![t] = to_marketing(w2, apiKeys)]
               ELSE IF "REPLICATE_API_KEY" \notin apiKeys
               THEN task' = [task EXCEPT ![t] =
                                to_marketing([w2 EXCEPT !.image = image_gen_unset,
                                                        !.log = @ \o Ran("image")],
                                             apiKeys)]
               ELSE task' = [task EXCEPT ![t] =
                                [w2 EXCEPT !.pc = "image_await",
                                           !.log = Append(@, Event("image", "dispatched"))]]
    /\ UNCHANGED <<HF_TOKEN, ALLOW_AUTO_DEPLOY, apiKeys, ledgerVars, memoryFile, turns, fresh, fileVersion,
                   nreq>>

\* run_workflow from the answer to the image call to the POST of the
\* marketing call
RunWorkflowImage(t, reply) ==
    /\ task[t].pc = "image_await"
    /\ LET w == task[t]
           r == image_gen(reply)
       IN
       IF ~r.ok
       THEN /\ last' = workflow_error(w.req, r.error)
            /\ gatewayLog' = Append(w.log, Event("image", "raised"))
            /\ task' = [task EXCEPT ![t] = Idle]
       ELSE /\ task' = [task EXCEPT ![t] =
                           to_marketing([w EXCEPT !.image = r.value,
                                                  !.log = Append(@, Event("image", "returned"))],
                                        apiKeys)]
            /\ UNCHANGED <<last, gatewayLog>>
    /\ UNCHANGED <<HF_TOKEN, ALLOW_AUTO_DEPLOY, apiKeys, ledgerVars, memoryFile, turns, fresh, fileVersion,
                   nreq>>

\* run_workflow from the answer to the marketing call to the response
RunWorkflowMarketing(t, reply) ==
    /\ task[t].pc = "marketing_await"
    /\ LET w == task[t]
           r == call_openai_chat(reply)
       IN
       /\ task' = [task EXCEPT ![t] = Idle]
       /\ IF ~r.ok
          THEN /\ last' = workflow_error(w.req, r.error)
               /\ gatewayLog' = Append(w.log, Event("marketing", "raised"))
          ELSE /\ last' = Response("run_workflow", w.req, 200,
                              [status |-> "ok",
                               result |-> [analysis |-> w.llm1.text,
                                           vertex_check |-> w.vertex,
                                           image |-> w.image,
                                           kyc |-> w.kyc,
                                           marketing |-> r.value.text]])
               /\ gatewayLog' = Append(w.log, Event("marketing", "returned"))
    /\ UNCHANGED <<HF_TOKEN, ALLOW_AUTO_DEPLOY, apiKeys, ledgerVars, memoryFile, turns, fresh, fileVersion,
                   nreq>>

-----------------------------------------------------------------------------
(* The orchestrator: the server receiving workflow requests *)

\* the keys run_workflow's provider calls look at
ApiKeyNames ==
    {"OPENAI_API_KEY", "GOOGLE_API_KEY", "ONFIDO_API_KEY", "REPLICATE_API_KEY"}

WorkflowPrompts == {<<"a">>, <<"a", "L", "o", "g", "o">>}

WorkflowNames == {None, <<"L", "O", "G", "O", "s">>}

UserData ==
    {NoData, DataOf({}), DataOf({"name"}), DataOf({"id_image"}),
     DataOf({"id_number", "name"})}

\* the answers of the chat-completions API
OpenAIReplies ==
    {[kind |-> "http_error"], [kind |-> "completion", content |-> <<"t">>],
     [kind |-> "other_json", str |-> <<"j">>]}

\* the answers of the predictions API: a status, or a JSON body
ImageReplies ==
    {[kind |-> "http_error"], [kind |-> "json", json |-> [id |-> "p"]],
     [kind |-> "json", json |-> Null]}

InitWorkflow ==
    /\ HF_TOKEN = FALSE
    /\ ALLOW_AUTO_DEPLOY = FALSE
    /\ apiKeys \in SUBSET ApiKeyNames
    /\ proposalsFile = AbsentFile
    /\ stagingDirExists = FALSE
    /\ stagingFiles = EmptyMap
    /\ memoryFile = NoMemoryFile
    /\ task = [t \in Tasks |-> Idle]
    /\ last = NoResponse
    /\ nreq = 0
    /\ approvedLog = {}
    /\ lifecycle = EmptyMap
    /\ proposed = {}
    /\ arrival = [t \in Tasks |-> EmptyMap]
    /\ overtaken = {}
    /\ turns = <<>>
    /\ fresh = NoWrite
    /\ fileVersion = 0
    /\ gatewayLog = <<>>

NextWorkflow ==
    /\ \/ \E t \in Tasks, p \in WorkflowPrompts, w \in WorkflowNames, d \in UserData :
             RunWorkflowStart(t, p, w, d)
       \/ \E t \in Tasks, reply \in OpenAIReplies : RunWorkflowAnalysis(t, reply)
       \/ \E t \in Tasks, reply \in ImageReplies : RunWorkflowImage(t, reply)
       \/ \E t \in Tasks, reply \in OpenAIReplies : RunWorkflowMarketing(t, reply)
    /\ UNCHANGED raceVars

SpecWorkflow == InitWorkflow /\ [][NextWorkflow]_vars

-----------------------------------------------------------------------------
(* Properties of the orchestrator *)

\* the provider call of this step is in the log
Dispatched_in(log, step) ==
    \E i \in 1..Len(log) : log[i] = [step |-> step, event |-> "dispatched"]

\* the provider call of this step was made for the request answered last
Dispatched(step) ==
    \E i \in 1..Len(gatewayLog) : gatewayLog[i] = [step |-> step, event |-> "dispatched"]

\* C14 as stated: whatever keys are missing, run_workflow returns a packaged
\* result unless a provider it posted to reported a failure.
C14_MissingKeyNeverFails ==
    (last.op = "run_workflow" /\ last.status # 502) =>
        last.status = 200 /\ last.body.status = "ok"

\* C15 as stated: a successful run_workflow has a non-null image result when
\* the prompt contains "logo" and a null one otherwise, and a non-null
\* verification result when user_data has an identity field and a null one
\* otherwise.
C15_ResultsByPromptAndData ==
    (last.op = "run_workflow" /\ last.status = 200) =>
        /\ last.body.result.image # Null <=> contains(last.req.prompt, Logo)
        /\ last.body.result.kyc # Null <=>
              ("id_number" \in last.req.user_data.fields
                 \/ "id_image" \in last.req.user_data.fields)

\* C15 amended: the image call is made, and its outcome is the image result,
\* exactly when "logo" occurs, in any letter case, in the prompt or in the
\* workflow name; the image result is null otherwise.  The outcome is the
\* provider's JSON body (null only if that body is null) or, without the key,
\* the payload {error: 'REPLICATE_API_KEY not set'}.  The verification result
\* is non-null exactly when user_data has the key id_number or id_image.
C15_ConditionalResults ==
    (last.op = "run_workflow" /\ last.status = 200) =>
        LET req == last.req
            logo == \/ contains(lower(req.prompt), Logo)
                    \/ (req.workflow # None /\ contains(lower(req.workflow), Logo))
            identity == \/ "id_number" \in req.user_data.fields
                        \/ "id_image" \in req.user_data.fields
        IN
        /\ Dispatched("image") <=> logo
        /\ ~logo => last.body.result.image = Null
        /\ logo =>
              IF "REPLICATE_API_KEY" \in apiKeys
              THEN last.body.result.image \in {[id |-> "p"], Null}
              ELSE last.body.result.image = [error |-> "REPLICATE_API_KEY not set"]
        /\ Dispatched("kyc") <=> identity
        /\ last.body.result.kyc # Null <=> identity

\* C15 witness: a workflow named after logos, whose prompt does not mention
\* them, was answered with an image the provider made and with a
\* verification result
C15_Witness ==
    /\ last.op = "run_workflow" /\ last.status = 200
    /\ last.req.prompt = <<"a">> /\ last.req.workflow # None
    /\ last.body.result.image = [id |-> "p"]
    /\ last.body.result.kyc # Null

\* the steps of run_workflow in the order of the code
StepOrder == <<"analysis", "vertex", "image", "kyc", "marketing">>

StepRank(step) == CHOOSE i \in 1..Len(StepOrder) : StepOrder[i] = step

\* a log of provider calls made one after the other in that order: every
\* call dispatched has its outcome next, before any other call is dispatched;
\* the first call is the analysis and the trend check follows it; a later
\* call is a later step; nothing follows a call that raised
InOrder(log) ==
    /\ \A i \in 1..Len(log) :
          /\ log[i].step \in {StepOrder[k] : k \in 1..Len(StepOrder)}
          /\ i % 2 = 1 => log[i].event = "dispatched"
          /\ i % 2 = 0 => /\ log[i].event \in {"returned", "raised"}
                          /\ log[i].step = log[i - 1].step
          /\ log[i].event = "raised" => i = Len(log)
          /\ (i % 2 = 1 /\ i > 2) => StepRank(log[i].step) > StepRank(log[i - 2].step)
    /\ Len(log) >= 1 => log[1].step = "analysis"
    /\ Len(log) >= 3 => log[3].step = "vertex"

\* C19: the provider calls of a workflow are dispatched in the order
\* analysis, trend check, image, verification, marketing, each one having its
\* outcome before the next is dispatched, the image and verification calls
\* only when their step runs.  A request in flight waits for the one call
\* dispatched last.  A call that raised is the last call of its request, which
\* is answered with an error status (502 or 500) and no packaged result; a
\* request is answered 200 with the packaged result only when no call raised
\* and the marketing call, dispatched last, returned.
C19_OrderedAndAbortsOnFailure ==
    /\ \A t \in Tasks :
          task[t].pc \in {"analysis_await", "image_await", "marketing_await"} =>
              LET log == task[t].log IN
              /\ InOrder(log)
              /\ Len(log) % 2 = 1
              /\ log[Len(log)] =
                    Event(CASE task[t].pc = "analysis_await" -> "analysis"
                            [] task[t].pc = "image_await" -> "image"
                            [] task[t].pc = "marketing_await" -> "marketing",
                          "dispatched")
              /\ Dispatched_in(log, "image") => wants_image(task[t].req)
              /\ Dispatched_in(log, "kyc") => wants_kyc(task[t].req)
              /\ task[t].pc = "marketing_await" =>
                    /\ Dispatched_in(log, "image") <=> wants_image(task[t].req)
                    /\ Dispatched_in(log, "kyc") <=> wants_kyc(task[t].req)
    /\ last.op = "run_workflow" =>
          /\ InOrder(gatewayLog)
          /\ Len(gatewayLog) >= 2 /\ Len(gatewayLog) % 2 = 0
          /\ IF gatewayLog[Len(gatewayLog)].event = "raised"
             THEN /\ last.status \in {500, 502}
                  /\ DOMAIN last.body = {"detail"}
             ELSE /\ last.status = 200
                  /\ last.body.status = "ok"
                  /\ DOMAIN last.body.result =
                        {"analysis", "vertex_check", "image", "kyc", "marketing"}
                  /\ gatewayLog[Len(gatewayLog)] = Event("marketing", "returned")
                  /\ Dispatched("image") <=> wants_image(last.req)
                  /\ Dispatched("kyc") <=> wants_kyc(last.req)

\* C19 witness: the image provider failed a request that asked for a logo and
\* gave an identity field; the request was answered 502 after the analysis,
\* the trend check and the image call, and neither the verification nor the
\* marketing call was made
C19_Witness ==
    /\ last.op = "run_workflow" /\ last.status = 502
    /\ wants_image(last.req) /\ wants_kyc(last.req)
    /\ gatewayLog = Ran("analysis") \o Ran("vertex")
                       \o <<Event("image", "dispatched"), Event("image", "raised")>>


=============================================================================
